---- MODULE Spec2Model ----
(***************************************************************************)
(* The reconciliation engine of dotty (src/src/main.rs): process/walk_dir   *)
(* walk a source tree, evaluate the optional Lua descriptor of every file   *)
(* and link or write the file below the destination root.                   *)
(*                                                                          *)
(* A file name is a sequence of tokens (<<"a">>, <<"a", ".lua">>), so that  *)
(* appending and stripping the ".lua" suffix are real operations.  A path   *)
(* is a sequence of names starting at the filesystem root.  The filesystem  *)
(* is a function from the paths that exist to their nodes.                  *)
(***************************************************************************)
EXTENDS Integers, Sequences, FiniteSets, TLC

\* ------------------------------------------------------------------ bounds

\* Invocations of the tool in one behaviour.
MaxRuns == 2

\* Symbolic links followed while resolving one path (ELOOP beyond it).
MaxHops == 3

\* ------------------------------------------------------------- option type

None == <<>>

Some(x) == <<x>>

IsSome(o) == Len(o) = 1

Get(o) == o[1]

Range(s) == {s[i] : i \in 1..Len(s)}

\* -------------------------------------------------------------- filesystem

File(b) == [k |-> "file", b |-> b, t |-> <<>>]

Dir == [k |-> "dir", b |-> "", t |-> <<>>]

Link(t) == [k |-> "link", b |-> "", t |-> t]

\* A name longer than NAME_MAX: every system call on a path holding it fails.
LongName == <<"LONG">>

Parent(p) == SubSeq(p, 1, Len(p) - 1)

Last(p) == p[Len(p)]

Join(p, q) == p \o q

\* The filesystem root always exists and is a directory.
Has(f, p) == p = <<>> \/ p \in DOMAIN f

Kind(f, p) == IF p = <<>> THEN "dir" ELSE IF p \in DOMAIN f THEN f[p].k ELSE "none"

\* Path resolution as the kernel does it: every component but the last is
\* resolved to a directory, following symbolic links; the result is the
\* physical path of the last component, <<"ENOENT">>-like errors are records.
Err(e) == [ok |-> FALSE, e |-> e, p |-> <<>>]

Ok(p) == [ok |-> TRUE, e |-> "", p |-> p]

RECURSIVE Lookup(_, _, _, _)
Lookup(f, cur, rest, hops) ==
    IF rest = <<>> THEN Ok(cur)
    ELSE IF Head(rest) = LongName THEN Err("ENAMETOOLONG")
    ELSE LET nxt == Append(cur, Head(rest)) IN
         IF Len(rest) = 1 THEN Ok(nxt)
         ELSE CASE Kind(f, nxt) = "none" -> Err("ENOENT")
                [] Kind(f, nxt) = "dir" -> Lookup(f, nxt, Tail(rest), hops)
                [] Kind(f, nxt) = "file" -> Err("ENOTDIR")
                [] Kind(f, nxt) = "link" ->
                     IF hops = 0 THEN Err("ELOOP")
                     ELSE Lookup(f, <<>>, f[nxt].t \o Tail(rest), hops - 1)

\* lstat: the last component is not followed.
LStat(f, p) == Lookup(f, <<>>, p, MaxHops)

\* stat: the last component is followed too.
RECURSIVE Follow(_, _, _)
Follow(f, p, hops) ==
    LET r == Lookup(f, <<>>, p, hops) IN
    IF ~r.ok THEN r
    ELSE IF Kind(f, r.p) = "none" THEN Err("ENOENT")
    ELSE IF Kind(f, r.p) = "link"
         THEN IF hops = 0 THEN Err("ELOOP") ELSE Follow(f, f[r.p].t, hops - 1)
    ELSE r

Stat(f, p) == Follow(f, p, MaxHops)

\* Path::exists, Path::is_file, Path::is_dir follow symbolic links and answer
\* false on any error; Path::is_symlink does not follow the last component.
exists(f, p) == Stat(f, p).ok

is_file(f, p) == Stat(f, p).ok /\ Kind(f, Stat(f, p).p) = "file"

is_dir(f, p) == Stat(f, p).ok /\ Kind(f, Stat(f, p).p) = "dir"

is_symlink(f, p) == LStat(f, p).ok /\ Kind(f, LStat(f, p).p) = "link"

\* fs::read(p).ok(): the bytes of the regular file p resolves to, or None.
read(f, p) == IF is_file(f, p) THEN Some(f[Stat(f, p).p].b) ELSE None

\* fs::read_link(p).ok(): the target of the symbolic link p, or None.
read_link(f, p) == IF is_symlink(f, p) THEN Some(f[LStat(f, p).p].t) ELSE None

\* A filesystem call's result: whether it succeeded and the filesystem after.
Res(ok, f) == [ok |-> ok, f |-> f]

Put(f, p, n) == [q \in DOMAIN f \cup {p} |-> IF q = p THEN n ELSE f[q]]

Del(f, p) == [q \in DOMAIN f \ {p} |-> f[q]]

\* mkdir(2).
mkdir(f, p) ==
    LET r == LStat(f, p) IN
    IF ~r.ok THEN [ok |-> FALSE, e |-> r.e, f |-> f]
    ELSE IF Has(f, r.p) THEN [ok |-> FALSE, e |-> "EEXIST", f |-> f]
    ELSE [ok |-> TRUE, e |-> "", f |-> Put(f, r.p, Dir)]

\* fs::create_dir_all: mkdir, and on ENOENT the parents first.
RECURSIVE create_dir_all(_, _)
create_dir_all(f, p) ==
    IF p = <<>> THEN Res(TRUE, f)
    ELSE LET m == mkdir(f, p) IN
         IF m.ok THEN Res(TRUE, m.f)
         ELSE IF m.e # "ENOENT" THEN Res(is_dir(f, p), f)
         ELSE LET up == create_dir_all(f, Parent(p)) IN
              IF ~up.ok THEN Res(FALSE, up.f)
              ELSE LET m2 == mkdir(up.f, p) IN
                   IF m2.ok THEN Res(TRUE, m2.f) ELSE Res(is_dir(up.f, p), up.f)

\* unix_fs::symlink(src, p): fails when p exists in any form.
symlink(f, src, p) ==
    LET r == LStat(f, p) IN
    IF ~r.ok \/ Has(f, r.p) THEN Res(FALSE, f) ELSE Res(TRUE, Put(f, r.p, Link(src)))

\* fs::write(p, bytes): creates or truncates the file p resolves to.
RECURSIVE write(_, _, _, _)
write(f, p, bytes, hops) ==
    LET r == Lookup(f, <<>>, p, hops) IN
    IF ~r.ok THEN Res(FALSE, f)
    ELSE CASE Kind(f, r.p) \in {"none", "file"} -> Res(TRUE, Put(f, r.p, File(bytes)))
           [] Kind(f, r.p) = "dir" -> Res(FALSE, f)
           [] Kind(f, r.p) = "link" ->
                IF hops = 0 THEN Res(FALSE, f) ELSE write(f, f[r.p].t, bytes, hops - 1)

\* fs::remove_file(p): unlinks a non-directory; the link itself, not its target.
remove_file(f, p) ==
    LET r == LStat(f, p) IN
    IF r.ok /\ Kind(f, r.p) \in {"file", "link"} THEN Res(TRUE, Del(f, r.p)) ELSE Res(FALSE, f)

\* The names read_dir yields for directory p (empty when p is no directory).
Entries(f, p) ==
    IF ~is_dir(f, p) THEN {}
    ELSE LET d == Stat(f, p).p IN {Last(q) : q \in {x \in DOMAIN f : Len(x) = Len(d) + 1 /\ Parent(x) = d}}

\* ---------------------------------------------------------------- scripting

\* What the Lua collaborator makes of a descriptor's text (chunk.eval).  A
\* value is a boolean, a table with optional rename_to and transform, some
\* other type, or the evaluation raises.
LuaVal(ty, b, rn, tf) == [ty |-> ty, b |-> b, rename_to |-> rn, transform |-> tf]

LuaTable(rn, tf) == LuaVal("table", TRUE, rn, tf)

LuaEval(src) ==
    CASE src = "return false" -> LuaVal("boolean", FALSE, None, None)
      [] src = "return true" -> LuaVal("boolean", TRUE, None, None)
      [] src = "return {}" -> LuaTable(None, None)
      [] src = "return { rename_to = 'b' }" -> LuaTable(Some(<<"b">>), None)
      [] src = "return { rename_to = 'd' }" -> LuaTable(Some(<<"d">>), None)
      [] src = "return { rename_to = LONG }" -> LuaTable(Some(LongName), None)
      [] src = "return { rename_to = '' }" -> LuaTable(Some(<<>>), None)
      [] src = "return { rename_to = 'x/y' }" -> LuaTable(Some(<<"x", "/", "y">>), None)
      [] src = "return { rename_to = 'x\\y' }" -> LuaTable(Some(<<"x", "\\", "y">>), None)
      [] src = "return { transform = new }" -> LuaTable(None, Some("new"))
      [] src = "return { rename_to = 'b', transform = new }" -> LuaTable(Some(<<"b">>), Some("new"))
      [] src = "return { transform = fail }" -> LuaTable(None, Some("fail"))
      [] src = "return 42" -> LuaVal("number", TRUE, None, None)
      [] OTHER -> LuaVal("error", TRUE, None, None)

\* func.call(original_content): the callable "new" returns the text N whatever
\* it is given, "gsub" rewrites A to N and leaves other text alone, "fail" raises.
LuaCall(func, content) ==
    CASE func = "new" -> Some("N")
      [] func = "gsub" -> Some(IF content = "A" THEN "N" ELSE content)
      [] OTHER -> None

Decision(ok, inc, rn, tf) == [ok |-> ok, include |-> inc, rename_to |-> rn, transform |-> tf]

Bail == Decision(FALSE, FALSE, None, None)

\* Lines 99-110: a rename_to that is empty or holds a path separator.
bad_rename(rt) == IsSome(rt) /\ ("/" \in Range(Get(rt)) \/ "\\" \in Range(Get(rt)) \/ Get(rt) = <<>>)

\* Lines 117-136: the transform, when there is one, applied to the source text.
transformed(rt, func, original_content) ==
    IF ~IsSome(func) THEN Decision(TRUE, TRUE, rt, None)
    ELSE IF ~IsSome(original_content) THEN Bail
    ELSE IF ~IsSome(LuaCall(Get(func), Get(original_content))) THEN Bail
    ELSE Decision(TRUE, TRUE, rt, LuaCall(Get(func), Get(original_content)))

\* Lines 87-143: the decision a value stands for.
decision_of(value, original_content) ==
    CASE value.ty = "boolean" -> Decision(TRUE, value.b, None, None)
      [] value.ty = "table" ->
           IF bad_rename(value.rename_to) THEN Bail
           ELSE transformed(value.rename_to, value.transform, original_content)
      [] OTHER -> Bail

\* lua_decision: the typed decision of a descriptor, or a fatal error (~ok).
lua_decision(f, lua_file, source_file) ==
    IF ~IsSome(read(f, lua_file)) THEN Bail
    ELSE decision_of(LuaEval(Get(read(f, lua_file))), read(f, source_file))

\* ------------------------------------------------------------------- walker

Root == << <<"R">> >>

Home == << <<"H">> >>

LuaSuffix == ".lua"

\* file_name_str.strip_suffix(".lua")
strip_suffix(name) == IF Len(name) >= 1 /\ Last(name) = LuaSuffix THEN Some(Parent(name)) ELSE None

\* path.with_extension(ext + "lua"): the file name with ".lua" appended.
companion_of(path) == Append(Parent(path), Append(Last(path), LuaSuffix))

\* Path::with_file_name
with_file_name(p, name) == Append(Parent(p), name)

\* An entry that is the descriptor of an existing sibling (lines 185-192).
is_companion(f, rel, name) ==
    /\ IsSome(strip_suffix(name))
    /\ exists(f, Join(Join(Root, rel), IF Get(strip_suffix(name)) = <<>> THEN <<>> ELSE <<Get(strip_suffix(name))>>))

\* target_of with the new name joined to the destination root.
target_of_flat(rel_path, decision) ==
    Join(Home, IF IsSome(decision.rename_to) THEN <<Get(decision.rename_to)>> ELSE rel_path)

target_of(rel_path, decision) ==
    Join(Home, IF IsSome(decision.rename_to) THEN with_file_name(rel_path, Get(decision.rename_to)) ELSE rel_path)

\* identity with the link compared to the destination path, not the source path.
identity_wrong_operand(f, decision, path, target) ==
    IF IsSome(decision.transform)
    THEN << read(f, target) = Some(Get(decision.transform)), FALSE >>
    ELSE LET link_target_matches == is_symlink(f, target) /\ read_link(f, target) = Some(target)
             content_matches == is_file(f, target) /\ is_file(f, path) /\ read(f, target) = read(f, path)
         IN << link_target_matches \/ content_matches, link_target_matches >>

\* identity that knows the right link only, not the equal bytes.
identity_link_only(f, decision, path, target) ==
    IF IsSome(decision.transform)
    THEN << read(f, target) = Some(Get(decision.transform)), FALSE >>
    ELSE LET link_target_matches == is_symlink(f, target) /\ read_link(f, target) = Some(path)
         IN << link_target_matches, link_target_matches >>

\* The identity check of an occupied target (lines 262-280): <<identical, is_already_linked>>.
identity(f, decision, path, target) ==
    IF IsSome(decision.transform)
    THEN << read(f, target) = Some(Get(decision.transform)), FALSE >>
    ELSE LET link_target_matches == is_symlink(f, target) /\ read_link(f, target) = Some(path)
             content_matches == is_file(f, target) /\ is_file(f, path) /\ read(f, target) = read(f, path)
         IN << link_target_matches \/ content_matches, link_target_matches >>

\* One outcome of the loop body for a regular file: what was printed (kind), the
\* filesystem after it, and what it added to the counters.
Outcome(kind, f, target, decision, p, c, s, o) ==
    [kind |-> kind, f |-> f, target |-> target, decision |-> decision,
     planned |-> p, conflicts |-> c, skips |-> s, overrides |-> o]

\* materialize that links whatever the decision.
materialize_link_only(f, decision, path, target) == symlink(f, path, target)

\* Writing or linking the target (lines 316-346 and 381-435).
materialize(f, decision, path, target) ==
    IF IsSome(decision.transform) THEN write(f, target, Get(decision.transform), MaxHops)
    ELSE symlink(f, path, target)

\* The outcome of a write or link: its filesystem, counted when it succeeded.
written(kind, w, decision, target, overrides) ==
    IF w.ok THEN Outcome(kind, w.f, target, decision, 1, 0, 0, overrides)
    ELSE Outcome("fatal_io", w.f, target, decision, 0, 0, 0, 0)

\* conflict_path that overwrites a differing file with the transform content.
conflict_path_overwrite(f, o, decision, path, target, id) ==
    IF id[2] \/ (IsSome(decision.transform) /\ id[1])
    THEN Outcome("in_place", f, target, decision, 1, 0, 0, 0)
    ELSE IF IsSome(decision.transform) /\ ~o.dry_run /\ ~is_dir(f, target)
    THEN written("create", materialize(f, decision, path, target), decision, target, 0)
    ELSE IF o.override_identical /\ id[1] /\ ~o.dry_run /\ ~is_dir(f, target)
    THEN written("override", materialize(remove_file(f, target).f, decision, path, target), decision, target, 1)
    ELSE Outcome("conflict", f, target, decision, 0, 1, 0, 0)

\* conflict_path that overrides without asking whether the content is identical.
conflict_path_any(f, o, decision, path, target, id) ==
    IF id[2] \/ (IsSome(decision.transform) /\ id[1])
    THEN Outcome("in_place", f, target, decision, 1, 0, 0, 0)
    ELSE IF o.override_identical /\ ~o.dry_run /\ ~is_dir(f, target)
    THEN written("override", materialize(remove_file(f, target).f, decision, path, target), decision, target, 1)
    ELSE Outcome("conflict", f, target, decision, 0, 1, 0, 0)

\* Lines 282-378: the target is occupied; id is <<identical, is_already_linked>>.
conflict_path(f, o, decision, path, target, id) ==
    IF id[2] \/ (IsSome(decision.transform) /\ id[1])
    THEN Outcome("in_place", f, target, decision, 1, 0, 0, 0)
    ELSE IF o.override_identical /\ id[1] /\ ~o.dry_run /\ ~is_dir(f, target)
    THEN written("override", materialize(remove_file(f, target).f, decision, path, target), decision, target, 1)
    ELSE Outcome("conflict", f, target, decision, 0, 1, 0, 0)

\* Lines 380-437: the target is free.
no_conflict_path(f, o, decision, path, target) ==
    IF o.dry_run THEN Outcome("create", f, target, decision, 1, 0, 0, 0)
    ELSE written("create", materialize(f, decision, path, target), decision, target, 0)

\* check_and_process that does not look at the target in a dry run.
check_and_process_dry_blind(o, decision, path, target, mk) ==
    IF ~mk.ok THEN Outcome("fatal_io", mk.f, target, decision, 0, 0, 0, 0)
    ELSE IF ~o.dry_run /\ (exists(mk.f, target) \/ is_symlink(mk.f, target))
    THEN conflict_path(mk.f, o, decision, path, target, identity(mk.f, decision, path, target))
    ELSE no_conflict_path(mk.f, o, decision, path, target)

\* Step 5 (lines 259-260), after step 4 has left mk.
check_and_process(o, decision, path, target, mk) ==
    IF ~mk.ok THEN Outcome("fatal_io", mk.f, target, decision, 0, 0, 0, 0)
    ELSE IF exists(mk.f, target) \/ is_symlink(mk.f, target)
    THEN conflict_path(mk.f, o, decision, path, target, identity(mk.f, decision, path, target))
    ELSE no_conflict_path(mk.f, o, decision, path, target)

\* create_parent_dirs without the dry-run test.
create_parent_dirs_always(f, o, decision, path, target) ==
    check_and_process(o, decision, path, target, create_dir_all(f, Parent(target)))

\* Step 4 (lines 247-257): the parent directories, unless this is a dry run.
create_parent_dirs(f, o, decision, path, target) ==
    check_and_process(o, decision, path, target,
                      IF ~o.dry_run THEN create_dir_all(f, Parent(target)) ELSE Res(TRUE, f))

\* handle_decision with the parent directories made before the skip is handled.
handle_decision_late_skip(f, o, rel_path, decision) ==
    IF ~decision.ok THEN Outcome("fatal_descriptor", f, <<>>, decision, 0, 0, 0, 0)
    ELSE IF ~decision.include
    THEN Outcome("skip", IF o.dry_run THEN f ELSE create_dir_all(f, Parent(Join(Home, rel_path))).f,
                 <<>>, decision, 0, 0, 1, 0)
    ELSE create_parent_dirs(f, o, decision, Join(Root, rel_path), target_of(rel_path, decision))

\* Steps 2 and 3 (lines 226-245): the skip, and the target path.
handle_decision(f, o, rel_path, decision) ==
    IF ~decision.ok THEN Outcome("fatal_descriptor", f, <<>>, decision, 0, 0, 0, 0)
    ELSE IF ~decision.include THEN Outcome("skip", f, <<>>, decision, 0, 0, 1, 0)
    ELSE create_parent_dirs(f, o, decision, Join(Root, rel_path), target_of(rel_path, decision))

\* Step 1 (lines 208-224): the decision of the descriptor, or the default one.
determine_decision(f, path) ==
    IF exists(f, companion_of(path)) THEN lua_decision(f, companion_of(path), path)
    ELSE Decision(TRUE, TRUE, None, None)

\* The loop body of walk_dir for an entry that is a regular file (lines 207-437).
visit_file(f, o, rel, name) ==
    handle_decision(f, o, Append(rel, name), determine_decision(f, Join(Root, Append(rel, name))))

\* What walk_dir returns: Ok(counts) or the error, and the filesystem it leaves.
Walked(ok, f, c) == [ok |-> ok, f |-> f, counts |-> c]

\* The entry read_dir yields next, for the walk taken as one function.
Pick(todo) == CHOOSE name \in todo : TRUE

RECURSIVE walk_dir(_, _, _, _, _)

\* Lines 198-203: the counts of a subdirectory are added, its error is passed on.
after_subdir(sub, o, rel, rest, c) ==
    IF ~sub.ok THEN Walked(FALSE, sub.f, c)
    ELSE walk_dir(sub.f, o, rel, rest,
                  [planned |-> c.planned + sub.counts.planned, conflicts |-> c.conflicts + sub.counts.conflicts,
                   skips |-> c.skips + sub.counts.skips, overrides |-> c.overrides + sub.counts.overrides])

\* Lines 207-437: the outcome of a file is counted, its error ends the walk.
after_file(out, o, rel, rest, c) ==
    IF out.kind \in {"fatal_descriptor", "fatal_io"} THEN Walked(FALSE, out.f, c)
    ELSE walk_dir(out.f, o, rel, rest,
                  [planned |-> c.planned + out.planned, conflicts |-> c.conflicts + out.conflicts,
                   skips |-> c.skips + out.skips, overrides |-> c.overrides + out.overrides])

\* One entry of the loop of walk_dir (lines 176-437).
walk_entry(f, o, rel, name, rest, c) ==
    IF is_companion(f, rel, name) THEN walk_dir(f, o, rel, rest, c)
    ELSE IF is_dir(f, Join(Root, Append(rel, name)))
    THEN after_subdir(walk_dir(f, o, Append(rel, name), Entries(f, Join(Root, Append(rel, name))),
                               [planned |-> 0, conflicts |-> 0, skips |-> 0, overrides |-> 0]),
                      o, rel, rest, c)
    ELSE IF is_file(f, Join(Root, Append(rel, name))) THEN after_file(visit_file(f, o, rel, name), o, rel, rest, c)
    ELSE walk_dir(f, o, rel, rest, c)

\* walk_dir (lines 165-446) as one function: the entries todo of directory
\* rel, in the order Pick yields them, from filesystem f and counts c.
walk_dir(f, o, rel, todo, c) ==
    IF todo = {} THEN Walked(TRUE, f, c)
    ELSE walk_entry(f, o, rel, Pick(todo), todo \ {Pick(todo)}, c)

\* -------------------------------------------------------------------- state

VARIABLES
    fs,       \* the filesystem: path -> node, for the paths that exist
    pc,       \* "idle", "walking", "done" (summary printed) or "failed" (fatal error)
    opts,     \* Options of the current invocation: dry_run, override_identical
    stack,    \* the activations of walk_dir, innermost last
    summary,  \* the totals the summary line prints, None until it is printed
    run,      \* invocations started so far
    ev,       \* history: what the last step did, and the filesystem before it
    log,      \* history: the outcome of every file visited by this invocation
    fs0,      \* history: the filesystem when this invocation started
    hist      \* history: one record per finished invocation

vars == <<fs, pc, opts, stack, summary, run, ev, log, fs0, hist>>

Options(dry, ovr) == [dry_run |-> dry, override_identical |-> ovr]

WalkCounts(p, c, s, o) == [planned |-> p, conflicts |-> c, skips |-> s, overrides |-> o]

\* An activation of walk_dir: its directory, the entries read_dir has still to
\* yield, and its four local counters.
Frame(rel, todo) == [rel |-> rel, todo |-> todo, planned |-> 0, conflicts |-> 0, skips |-> 0, overrides |-> 0]

Top == stack[Len(stack)]

SetTop(fr) == [stack EXCEPT ![Len(stack)] = fr]

CountsOf(fr) == WalkCounts(fr.planned, fr.conflicts, fr.skips, fr.overrides)

\* What a step did: its kind, the entry, the target and decision of a visited
\* file, the filesystem before the step and the activation's counters before it.
Event(kind, rel_path, out, pre, before) ==
    [kind |-> kind, rel_path |-> rel_path, target |-> out.target, decision |-> out.decision,
     pre |-> pre, before |-> before]

NoOutcome(f) == Outcome("none", f, <<>>, Decision(TRUE, TRUE, None, None), 0, 0, 0, 0)

Plain(kind, rel_path) == Event(kind, rel_path, NoOutcome(fs), fs, WalkCounts(0, 0, 0, 0))

\* The paths below the destination root.
UnderHome(f) == {p \in DOMAIN f : Len(p) > 1 /\ p[1] = Home[1]}

UnderRoot(f) == {p \in DOMAIN f : Len(p) >= 1 /\ p[1] = Root[1]}

Finished(status) ==
    [opts |-> opts, status |-> status, fresh |-> UnderHome(fs0) = {}, source |-> [p \in UnderRoot(fs0) |-> fs0[p]],
     changed |-> fs # fs0, counts |-> CountsOf(Top),
     depth |-> Len(stack)]

\* ------------------------------------------------------------ initial states

EmptyFs == [p \in {} |-> Dir]

At(dir, name, node) == Append(dir, name) :> node

\* A source file with bytes b and, when desc is not "", its descriptor.
Managed(dir, name, b, desc) ==
    At(dir, name, File(b)) @@ (IF desc = "" THEN EmptyFs ELSE At(dir, Append(name, LuaSuffix), File(desc)))

Descriptors ==
    {"return false", "return true", "return {}", "return { rename_to = 'b' }", "return { rename_to = LONG }",
     "return { rename_to = '' }", "return { rename_to = 'x/y' }", "return { rename_to = 'x\\y' }",
     "return { transform = new }", "return { rename_to = 'b', transform = new }",
     "return { transform = fail }", "return 42", "error()"}

NA == <<"a">>

NB == <<"b">>

ND == <<"d">>

RootD == Append(Root, ND)

HomeD == Append(Home, ND)

\* The descriptors that decide without failing, "" for no descriptor.
Deciding ==
    {"", "return false", "return {}", "return { rename_to = 'b' }", "return { rename_to = LONG }",
     "return { transform = new }", "return { rename_to = 'b', transform = new }"}

\* The descriptors whose evaluation is a fatal error.
Failing == Descriptors \ (Deciding \cup {"return true"})

\* Source slot a: a file with bytes A and descriptor d.
SrcA(d) == Managed(Root, NA, "A", d)

\* Source slot b: absent, a plain file, a skipped file, a dangling symbolic
\* link, or an orphaned descriptor file b.lua.
SrcB ==
    {EmptyFs, Managed(Root, NB, "A", ""), Managed(Root, NB, "B", "return false"),
     At(Root, NB, Link(Append(Root, <<"gone">>))), At(Root, Append(NB, LuaSuffix), File("return false"))}

\* Source slot d: a directory holding one file with descriptor d, and with
\* sibling a descriptor-named file d.lua of the directory itself.
SrcD(d) == At(Root, ND, Dir) @@ Managed(RootD, NA, "A", d)

SrcDLua == At(Root, Append(ND, LuaSuffix), File("return false"))

\* Destination slot a: absent, a file equal to the source, equal to the
\* transform's output, or different, the right link, a directory.
DstA ==
    {EmptyFs, At(Home, NA, File("A")), At(Home, NA, File("N")), At(Home, NA, File("Z")),
     At(Home, NA, Link(Append(Root, NA))), At(Home, NA, Dir)}

\* Destination slot a as a link to source file b, which exists or not.
DstALinkB == At(Home, NA, Link(Append(Root, NB)))

DstB == At(Home, NB, File("A"))

\* Destination slot a as a link to a destination file holding the transform's output.
DstALinkN == At(Home, NA, Link(Append(Home, NB))) @@ At(Home, NB, File("N"))

\* Destination slot d: absent, a directory (empty or holding a file), a regular
\* file where the directory should be, or a symbolic link to the source directory.
DstD ==
    {EmptyFs, At(Home, ND, Dir), At(Home, ND, Dir) @@ At(HomeD, NA, File("A")),
     At(Home, ND, Dir) @@ At(HomeD, NA, File("Z")), At(Home, ND, File("Z")), At(Home, ND, Link(RootD))}

Base == (Root :> Dir) @@ (Home :> Dir)

\* The tree of tests/nested.rs: a planned file and a skipped one at the top,
\* and two directories down a file whose destination holds other bytes.
NestedTest ==
    Base @@ Managed(Root, NA, "A", "") @@ Managed(Root, NB, "B", "return false")
         @@ At(Root, ND, Dir) @@ At(RootD, ND, Dir) @@ Managed(Append(RootD, ND), NA, "A", "")
         @@ At(Home, ND, Dir) @@ At(HomeD, ND, Dir) @@ At(Append(HomeD, ND), NA, File("Z"))

\* Empty destinations: flat sources, failing descriptors, nested sources, and
\* a written file, a skipped file and a nested link together.
FreshTrees ==
    {Base @@ b : b \in SrcB}
    \cup {Base @@ SrcA(d) @@ b : d \in Deciding, b \in SrcB}
    \cup {Base @@ SrcA(d) @@ Managed(Root, NB, "A", "") : d \in Failing \cup {"return true"}}
    \cup {Base @@ SrcA(a) @@ SrcD(d) :
            a \in {"", "return { rename_to = 'd' }", "error()"},
            d \in {"", "return false", "return { rename_to = 'b' }", "return { rename_to = LONG }",
                   "return { transform = new }"}}
    \cup {Base @@ SrcA("") @@ SrcD("") @@ SrcDLua}
    \cup {Base @@ SrcA("return { transform = new }") @@ Managed(Root, NB, "B", "return false") @@ SrcD("")}

\* Occupied destinations: each deciding source against each destination slot.
OccupiedTrees ==
    {Base @@ SrcA(d) @@ x : d \in Deciding, x \in DstA \ {EmptyFs}}
    \cup {Base @@ SrcA(d) @@ b @@ DstALinkB : d \in Deciding, b \in {EmptyFs, Managed(Root, NB, "A", "")}}
    \cup {Base @@ SrcA(d) @@ b @@ DstB : d \in Deciding, b \in {EmptyFs, Managed(Root, NB, "A", "")}}
    \cup {Base @@ SrcA(d) @@ DstALinkN : d \in {"", "return { transform = new }"}}
    \cup {Base @@ SrcA(a) @@ SrcD(d) @@ z :
            a \in {"", "return { rename_to = 'd' }"},
            d \in {"", "return { rename_to = LONG }", "return { transform = new }"},
            z \in DstD \ {EmptyFs}}
    \cup {Base @@ SrcD("return { rename_to = 'b' }") @@ At(RootD, Append(NB, LuaSuffix), File("B"))
                @@ At(Home, ND, Link(RootD))}
    \cup {NestedTest}

Trees == FreshTrees \cup OccupiedTrees

Init ==
    /\ fs \in Trees
    /\ pc = "idle"
    /\ opts = Options(FALSE, FALSE)
    /\ stack = <<>>
    /\ summary = None
    /\ run = 0
    /\ ev = Plain("init", <<>>)
    /\ log = {}
    /\ fs0 = fs
    /\ hist = <<>>

\* ------------------------------------------------------------------ actions

\* main/process: one invocation starts; walk_dir is entered for the root.
process(dry, ovr) ==
    /\ pc \in {"idle", "done", "failed"}
    /\ run < MaxRuns
    /\ is_dir(fs, Root)
    /\ pc' = "walking"
    /\ opts' = Options(dry, ovr)
    /\ stack' = << Frame(<<>>, Entries(fs, Root)) >>
    /\ summary' = None
    /\ run' = run + 1
    /\ ev' = Plain("start", <<>>)
    /\ log' = {}
    /\ fs0' = fs
    /\ UNCHANGED <<fs, hist>>

\* Lines 185-192: a .lua entry whose non-suffixed sibling exists is passed over.
skip_companion(name) ==
    /\ pc = "walking"
    /\ name \in Top.todo
    /\ is_companion(fs, Top.rel, name)
    /\ stack' = SetTop([Top EXCEPT !.todo = @ \ {name}])
    /\ ev' = Plain("companion", Append(Top.rel, name))
    /\ UNCHANGED <<fs, pc, opts, summary, run, log, fs0, hist>>

\* recurse that loses the entries the caller had still to read.
recurse_drops_siblings(name) ==
    /\ pc = "walking"
    /\ name \in Top.todo
    /\ ~is_companion(fs, Top.rel, name)
    /\ is_dir(fs, Join(Root, Append(Top.rel, name)))
    /\ stack' = Append(SetTop([Top EXCEPT !.todo = {}]),
                       Frame(Append(Top.rel, name), Entries(fs, Join(Root, Append(Top.rel, name)))))
    /\ ev' = Plain("recurse", Append(Top.rel, name))
    /\ UNCHANGED <<fs, pc, opts, summary, run, log, fs0, hist>>

\* Lines 196-198: a directory is entered.
recurse(name) ==
    /\ pc = "walking"
    /\ name \in Top.todo
    /\ ~is_companion(fs, Top.rel, name)
    /\ is_dir(fs, Join(Root, Append(Top.rel, name)))
    /\ stack' = Append(SetTop([Top EXCEPT !.todo = @ \ {name}]),
                       Frame(Append(Top.rel, name), Entries(fs, Join(Root, Append(Top.rel, name)))))
    /\ ev' = Plain("recurse", Append(Top.rel, name))
    /\ UNCHANGED <<fs, pc, opts, summary, run, log, fs0, hist>>

\* return that forgets to add the conflicts of the subdirectory.
return_without_conflicts ==
    /\ pc = "walking"
    /\ Len(stack) > 1
    /\ Top.todo = {}
    /\ LET sub == Top
           up == stack[Len(stack) - 1]
       IN stack' = Append(SubSeq(stack, 1, Len(stack) - 2),
                          [up EXCEPT !.planned = @ + sub.planned, !.skips = @ + sub.skips,
                                     !.overrides = @ + sub.overrides])
    /\ ev' = Plain("return", Top.rel)
    /\ UNCHANGED <<fs, pc, opts, summary, run, log, fs0, hist>>

\* Lines 198-203 and 440-445: walk_dir returns, its counts are added to the caller's.
return ==
    /\ pc = "walking"
    /\ Len(stack) > 1
    /\ Top.todo = {}
    /\ LET sub == Top
           up == stack[Len(stack) - 1]
       IN stack' = Append(SubSeq(stack, 1, Len(stack) - 2),
                          [up EXCEPT !.planned = @ + sub.planned, !.conflicts = @ + sub.conflicts,
                                     !.skips = @ + sub.skips, !.overrides = @ + sub.overrides])
    /\ ev' = Plain("return", Top.rel)
    /\ UNCHANGED <<fs, pc, opts, summary, run, log, fs0, hist>>

\* The effect of one visited file: the filesystem, the counters, the histories.
visited(name, out, fatal) ==
    /\ fs' = out.f
    /\ ev' = Event(out.kind, Append(Top.rel, name), out, fs, CountsOf(Top))
    /\ pc' = IF fatal THEN "failed" ELSE "walking"
    /\ stack' = SetTop([Top EXCEPT !.todo = @ \ {name},
                                   !.planned = @ + out.planned, !.conflicts = @ + out.conflicts,
                                   !.skips = @ + out.skips, !.overrides = @ + out.overrides])
    /\ log' = IF fatal THEN log ELSE log \cup {[rel_path |-> Append(Top.rel, name), kind |-> out.kind]}
    /\ hist' = IF fatal THEN Append(hist, [Finished("failed") EXCEPT !.changed = out.f # fs0]) ELSE hist
    /\ UNCHANGED <<opts, summary, run, fs0>>

\* is_fatal that lets an I/O error pass.
is_fatal_descriptor_only(out) == out.kind = "fatal_descriptor"

is_fatal(out) == out.kind \in {"fatal_descriptor", "fatal_io"}

after_visit(name, out) == visited(name, out, is_fatal(out))

\* Lines 207-437: a regular file is decided, classified and materialized.
visit(name) ==
    /\ pc = "walking"
    /\ name \in Top.todo
    /\ ~is_companion(fs, Top.rel, name)
    /\ ~is_dir(fs, Join(Root, Append(Top.rel, name)))
    /\ is_file(fs, Join(Root, Append(Top.rel, name)))
    /\ after_visit(name, visit_file(fs, opts, Top.rel, name))

\* Line 207, the implicit else: an entry that is neither directory nor file.
ignore(name) ==
    /\ pc = "walking"
    /\ name \in Top.todo
    /\ ~is_companion(fs, Top.rel, name)
    /\ ~is_dir(fs, Join(Root, Append(Top.rel, name)))
    /\ ~is_file(fs, Join(Root, Append(Top.rel, name)))
    /\ stack' = SetTop([Top EXCEPT !.todo = @ \ {name}])
    /\ ev' = Plain("ignore", Append(Top.rel, name))
    /\ UNCHANGED <<fs, pc, opts, summary, run, log, fs0, hist>>

\* Lines 448-470: the outermost walk_dir returns and the summary is printed.
summarize ==
    /\ pc = "walking"
    /\ Len(stack) = 1
    /\ Top.todo = {}
    /\ pc' = "done"
    /\ summary' = Some(CountsOf(Top))
    /\ ev' = Plain("summary", <<>>)
    /\ hist' = Append(hist, Finished("done"))
    /\ UNCHANGED <<fs, opts, stack, run, log, fs0>>

AllNames == {Last(p) : p \in DOMAIN fs}

Next ==
    \/ \E dry \in BOOLEAN, ovr \in BOOLEAN : process(dry, ovr)
    \/ \E name \in AllNames : skip_companion(name)
    \/ \E name \in AllNames : recurse(name)
    \/ \E name \in AllNames : visit(name)
    \/ \E name \in AllNames : ignore(name)
    \/ return
    \/ summarize

Spec == Init /\ [][Next]_vars

\* ------------------------------------------------------------------- claims

\* The regular files of the source tree that are not the descriptor of an
\* existing sibling, as paths relative to the source root.
ManagedFiles(f) ==
    {Tail(p) : p \in {q \in UnderRoot(f) : /\ Len(q) > 1
                                           /\ is_file(f, q)
                                           /\ ~is_companion(f, Tail(Parent(q)), Last(q))}}

DecisionAt(f, rel_path) == determine_decision(f, Join(Root, rel_path))

\* The managed files a run links or writes, when their descriptors evaluate.
Included(f) == {r \in ManagedFiles(f) : DecisionAt(f, r).ok /\ DecisionAt(f, r).include}

IsPrefix(p, q) == Len(p) <= Len(q) /\ SubSeq(q, 1, Len(p)) = p

\* No two included files resolve to the same destination path, nor to one
\* nested below another.
DistinctTargets(f) ==
    \A r1, r2 \in Included(f) :
        r1 # r2 => ~IsPrefix(target_of(r1, DecisionAt(f, r1)), target_of(r2, DecisionAt(f, r2)))

SourceOf(f) == [p \in UnderRoot(f) |-> f[p]]

Visits == {"skip", "in_place", "override", "conflict", "create", "fatal_descriptor", "fatal_io"}

\* The last two finished invocations: a non-dry run into an empty destination
\* that printed its summary, then a run with the same source tree and options.
Rerun ==
    /\ pc \in {"done", "failed"}
    /\ Len(hist) >= 2
    /\ hist[Len(hist) - 1].fresh
    /\ ~hist[Len(hist) - 1].opts.dry_run
    /\ hist[Len(hist) - 1].status = "done"
    /\ hist[Len(hist)].opts = hist[Len(hist) - 1].opts
    /\ hist[Len(hist)].source = hist[Len(hist) - 1].source

AlreadySatisfied ==
    /\ ~hist[Len(hist)].changed
    /\ hist[Len(hist)].status = "done" =>
         /\ hist[Len(hist)].counts.conflicts = 0
         /\ \A e \in log : e.kind \in {"in_place", "skip"}
         /\ hist[Len(hist)].counts.planned = Cardinality({e \in log : e.kind = "in_place"})

Visited == ev.kind \in Visits

\* The source path of the file the last step visited.
EvPath == Join(Root, ev.rel_path)

\* The decision of the visited file, evaluated in the filesystem before the step.
EvDecision == DecisionAt(ev.pre, ev.rel_path)

EvIncluded == Visited /\ EvDecision.ok /\ EvDecision.include

\* Its destination path, and whether something was there before the step.
EvTarget == target_of(ev.rel_path, EvDecision)

Occupied(f, p) == exists(f, p) \/ is_symlink(f, p)

\* The content the decision wants at the destination: the transform's output,
\* or the bytes of the source file.
Desired(f, decision, path) == IF IsSome(decision.transform) THEN decision.transform ELSE read(f, path)

\* The node at path p itself (the last component not followed), or no node.
NodeAt(f, p) == IF LStat(f, p).ok /\ Has(f, LStat(f, p).p) /\ LStat(f, p).p # <<>> THEN Some(f[LStat(f, p).p]) ELSE None

\* The activation's counters grew by exactly (p, c, s, o) in the last step.
Counted(p, c, s, o) ==
    CountsOf(Top) = WalkCounts(ev.before.planned + p, ev.before.conflicts + c, ev.before.skips + s,
                               ev.before.overrides + o)

\* The visited file's destination existed with content other than the desired.
EvDiffers ==
    /\ EvIncluded
    /\ Occupied(ev.pre, EvTarget)
    /\ read(ev.pre, EvTarget) # Desired(ev.pre, EvDecision, EvPath)

C3_TransformOverwrites ==
    (/\ EvIncluded
     /\ ~opts.dry_run
     /\ IsSome(EvDecision.transform)
     /\ IsSome(NodeAt(ev.pre, EvTarget))
     /\ Get(NodeAt(ev.pre, EvTarget)).k = "file"
     /\ Some(Get(NodeAt(ev.pre, EvTarget)).b) # EvDecision.transform)
        => (pc # "failed" /\ read(fs, EvTarget) = EvDecision.transform)

\* C4: during and after a dry run the filesystem, source and destination, is
\* the filesystem the run started with, whatever the override flag.
C4_DryRunPurity == (pc # "idle" /\ opts.dry_run) => fs = fs0

\* A dry run with override mode on planned a link below a directory that does
\* not exist and printed its summary.
C4_Witness ==
    /\ pc = "done"
    /\ opts.dry_run
    /\ opts.override_identical
    /\ \E e \in log : e.kind = "create" /\ Len(e.rel_path) = 2 /\ ~exists(fs, Join(Home, Parent(e.rel_path)))

\* C5: a file whose descriptor decides include = false adds one to skips and
\* nothing to the other counters, and its visit leaves the filesystem as it
\* was: no destination entry and no parent directory is created.
C5_SkipCorrectness ==
    (Visited /\ EvDecision.ok /\ ~EvDecision.include) =>
        /\ ev.kind = "skip"
        /\ Counted(0, 0, 1, 0)
        /\ fs = ev.pre
        /\ ev.target = <<>>

\* A non-dry run skipped a nested file whose destination directory is absent.
C5_Witness ==
    /\ ev.kind = "skip"
    /\ ~opts.dry_run
    /\ Len(ev.rel_path) = 2
    /\ ~Occupied(fs, Join(Home, Parent(ev.rel_path)))

\* The visited file carries transform content and its destination was absent.
EvFreshTransform ==
    /\ EvIncluded
    /\ ~opts.dry_run
    /\ IsSome(EvDecision.transform)
    /\ ~Occupied(ev.pre, EvTarget)

WrittenAsFile ==
    /\ ev.kind = "create"
    /\ IsSome(NodeAt(fs, EvTarget))
    /\ Get(NodeAt(fs, EvTarget)) = File(Get(EvDecision.transform))
    /\ Counted(1, 0, 0, 0)

C7_RenameCorrectness ==
    EvIncluded =>
        /\ Last(ev.target) = (IF IsSome(EvDecision.rename_to) THEN Get(EvDecision.rename_to) ELSE Last(ev.rel_path))
        /\ Parent(ev.target) = Parent(Join(Home, ev.rel_path))
        /\ (ev.kind \in {"create", "override"} /\ ~opts.dry_run) =>
              /\ IsSome(NodeAt(fs, Join(Parent(Join(Home, ev.rel_path)), <<Last(ev.target)>>)))
              /\ (IsSome(EvDecision.rename_to) /\ ~Occupied(ev.pre, Join(Home, ev.rel_path)))
                    => ~Occupied(fs, Join(Home, ev.rel_path))

\* A nested file was linked under its new name, in the directory of the old.
C7_Witness ==
    /\ EvIncluded
    /\ ev.kind = "create"
    /\ ~opts.dry_run
    /\ Len(ev.rel_path) = 2
    /\ EvDecision.rename_to = Some(<<"b">>)
    /\ NodeAt(fs, Append(HomeD, <<"b">>)) = Some(Link(EvPath))
    /\ ~Occupied(fs, Append(HomeD, <<"a">>))

Kinds(ks) == Cardinality({e \in log : e.kind \in ks})

\* C8: when a run prints its summary, each total is the number of visited
\* files with that outcome, at any depth; every managed file of the source
\* tree has exactly one outcome, so planned + conflicts + skips is the
\* number of managed files, and overrides <= planned.
C8_Aggregation ==
    pc = "done" =>
        /\ IsSome(summary)
        /\ Get(summary).planned = Kinds({"in_place", "create", "override"})
        /\ Get(summary).conflicts = Kinds({"conflict"})
        /\ Get(summary).skips = Kinds({"skip"})
        /\ Get(summary).overrides = Kinds({"override"})
        /\ {e.rel_path : e \in log} = ManagedFiles(fs0)
        /\ Cardinality(log) = Cardinality(ManagedFiles(fs0))
        /\ Get(summary).planned + Get(summary).conflicts + Get(summary).skips = Cardinality(ManagedFiles(fs0))
        /\ Get(summary).overrides <= Get(summary).planned

\* The run of tests/nested.rs: one planned, one conflict two directories
\* down, one skipped.
C8_Witness ==
    /\ pc = "done"
    /\ summary = Some(WalkCounts(1, 1, 1, 0))
    /\ \E e \in log : e.kind = "conflict" /\ Len(e.rel_path) = 3
    /\ \E e \in log : e.kind = "create" /\ Len(e.rel_path) = 1

\* The entries the last step removed or replaced.
Removed == {p \in DOMAIN ev.pre : p \notin DOMAIN fs \/ fs[p] # ev.pre[p]}

\* C9: an entry is removed only by the override of a visited file, in a
\* non-dry run with override mode on: it is the entry at the file's
\* destination path, a regular file or symbolic link and no directory, its
\* content was identical to the desired content, and the step that removes it
\* recreates it at the same path.
C9_DeletionSafety ==
    \A p \in Removed :
        /\ ev.kind = "override"
        /\ opts.override_identical
        /\ ~opts.dry_run
        /\ LStat(ev.pre, ev.target) = Ok(p)
        /\ ev.pre[p].k \in {"file", "link"}
        /\ ~is_dir(ev.pre, ev.target)
        /\ read(ev.pre, ev.target) = Desired(ev.pre, EvDecision, EvPath)
        /\ p \in DOMAIN fs
        /\ fs[p] = Link(EvPath)

\* An identical regular file was removed and replaced by the link.
C9_Witness ==
    /\ ev.kind = "override"
    /\ NodeAt(ev.pre, ev.target) = Some(File("A"))
    /\ NodeAt(fs, ev.target) = Some(Link(EvPath))
    /\ Removed = {ev.target}

Fatal == ev.kind \in {"fatal_descriptor", "fatal_io"}

\* A fatal error ends the walk where it is raised: the entry is not counted,
\* no summary is printed, and no further step of this invocation follows.
Aborted ==
    /\ Fatal <=> pc = "failed"
    /\ Fatal =>
         /\ Counted(0, 0, 0, 0)
         /\ summary = None
         /\ hist[Len(hist)].status = "failed"
         /\ \A p \in DOMAIN ev.pre : p \in DOMAIN fs /\ fs[p] = ev.pre[p]

\* C10 as stated: a descriptor error or an I/O error stops the walk at that
\* entry, the entry is not counted, no summary is printed, what was done
\* before stays, and nothing in the filesystem is changed for the entry.
C10_Original == Aborted /\ (Fatal => fs = ev.pre)

\* C10 as amended: the same, except that an I/O error raised after the
\* parent directories of the destination were created leaves those new
\* directories in place; a descriptor error changes nothing.
C10_FatalErrorAbort ==
    /\ Aborted
    /\ ev.kind = "fatal_descriptor" => fs = ev.pre
    /\ ev.kind = "fatal_io" =>
         \A p \in DOMAIN fs \ DOMAIN ev.pre : fs[p] = Dir /\ IsPrefix(p, Parent(ev.target))

\* A descriptor error after another file had been linked: the link stays
\* and the file after the error is never visited.
C10_Witness ==
    /\ ev.kind = "fatal_descriptor"
    /\ ~opts.dry_run
    /\ \E e \in log : e.kind = "create"
    /\ fs # fs0
    /\ Top.todo # {}

\* The visited file is linked, not transformed, and its destination was a
\* regular file (no symbolic link) holding the bytes of the source file.
EvIdenticalFile ==
    /\ EvIncluded
    /\ ~IsSome(EvDecision.transform)
    /\ IsSome(NodeAt(ev.pre, EvTarget))
    /\ Get(NodeAt(ev.pre, EvTarget)).k = "file"
    /\ Some(Get(NodeAt(ev.pre, EvTarget)).b) = read(ev.pre, EvPath)

\* C11: a link entry whose destination is a regular file with the bytes of
\* the source file is, with override mode on in a non-dry run, removed and
\* recreated as a symbolic link to the source, adding one to planned and one
\* to overrides; with override mode off or in a dry run it adds one to
\* conflicts and the filesystem stays as it was.
C11_ContentIdenticalDispatch ==
    EvIdenticalFile =>
        IF opts.override_identical /\ ~opts.dry_run
        THEN /\ ev.kind = "override"
             /\ NodeAt(fs, EvTarget) = Some(Link(EvPath))
             /\ Counted(1, 0, 0, 1)
             /\ \A p \in DOMAIN fs \cup DOMAIN ev.pre :
                   LStat(ev.pre, EvTarget) # Ok(p) => (p \in DOMAIN fs /\ p \in DOMAIN ev.pre /\ fs[p] = ev.pre[p])
        ELSE /\ ev.kind = "conflict"
             /\ Counted(0, 1, 0, 0)
             /\ fs = ev.pre

\* A renamed entry found its bytes under the new name and replaced them by
\* a link, in a run with override mode on.
C11_Witness ==
    /\ EvIdenticalFile
    /\ opts.override_identical
    /\ ~opts.dry_run
    /\ EvDecision.rename_to = Some(<<"b">>)
    /\ NodeAt(ev.pre, Append(Home, <<"b">>)) = Some(File("A"))
    /\ NodeAt(fs, Append(Home, <<"b">>)) = Some(Link(EvPath))

\* The visited file carries transform content and its destination was occupied.
EvTransformOccupied ==
    /\ EvIncluded
    /\ IsSome(EvDecision.transform)
    /\ Occupied(ev.pre, EvTarget)

\* C12: an entry with transform content C and an occupied destination is
\* counted as already satisfied, with nothing changed, exactly when the
\* destination is itself a regular file with bytes C; a destination that is
\* a symbolic link, a directory or a file with other bytes is a conflict.
C12_TransformClassification ==
    EvTransformOccupied =>
        /\ fs = ev.pre
        /\ IF NodeAt(ev.pre, EvTarget) = Some(File(Get(EvDecision.transform)))
           THEN ev.kind = "in_place" /\ Counted(1, 0, 0, 0)
           ELSE ev.kind = "conflict" /\ Counted(0, 1, 0, 0)

\* The last step handled an entry named N.lua, in whatever way.
EvSuffixed == ev.kind \in Visits \cup {"companion", "recurse", "ignore"} /\ IsSome(strip_suffix(Last(ev.rel_path)))

\* The non-suffixed sibling N of the entry the last step handled.
EvSibling == Join(Root, with_file_name(ev.rel_path, Get(strip_suffix(Last(ev.rel_path)))))

\* C13: an entry named N.lua is passed over, neither linked nor counted nor
\* used as a source entry, exactly when a file N exists in the same source
\* directory; when there is no such file it is walked as an ordinary entry
\* and gets exactly one outcome.
C13_DescriptorPairing ==
    EvSuffixed =>
        IF is_file(ev.pre, EvSibling)
        THEN ev.kind = "companion" /\ fs = ev.pre /\ \A e \in log : e.rel_path # ev.rel_path
        ELSE /\ ev.kind \in Visits
             /\ ev.kind \notin {"fatal_descriptor", "fatal_io"} =>
                   Cardinality({e \in log : e.rel_path = ev.rel_path}) = 1

\* The visits of this run that classified a destination path.
Classified == {e \in log : e.kind \in {"in_place", "override", "conflict", "create"}}

\* The destination path a visit of this run resolved to.
TargetOfVisit(e) == target_of(e.rel_path, DecisionAt(fs0, e.rel_path))

\* C14: within a run no two distinct source entries resolve to the same
\* destination path, rename_to applied, so that every destination path is
\* classified and acted on at most once.
C14_DestinationUniqueness ==
    \A e1, e2 \in Classified : e1.rel_path # e2.rel_path => TargetOfVisit(e1) # TargetOfVisit(e2)

\* The run that has just ended, and the same run with the entries of every
\* directory taken in one fixed order.
RunEnded == pc \in {"done", "failed"}

ThisRun == hist[Len(hist)]

Canonical == walk_dir(fs0, opts, <<>>, Entries(fs0, Root), WalkCounts(0, 0, 0, 0))

DestinationOf(f) == [p \in UnderHome(f) |-> f[p]]

SameStatus == (ThisRun.status = "done") = Canonical.ok

SameCounts == Canonical.ok => ThisRun.counts = Canonical.counts

SameDestination == DestinationOf(fs) = DestinationOf(Canonical.f)

Separate(f) ==
    \A p \in UnderHome(f) : (f[p].k = "link" /\ is_dir(f, p)) => ~IsPrefix(Root, Stat(f, p).p)

C16_SourceReadOnly == pc # "idle" => SourceOf(fs) = SourceOf(fs0)

\* The run before the one that has just ended.
PrevRun == hist[Len(hist) - 1]

\* A dry run and then a non-dry run, both without override mode; the second
\* starts from the state the first started from, as a dry run changes nothing.
DryThenReal ==
    /\ RunEnded
    /\ Len(hist) >= 2
    /\ PrevRun.opts = Options(TRUE, FALSE)
    /\ ThisRun.opts = Options(FALSE, FALSE)
    /\ PrevRun.source = SourceOf(fs0)

SameReport ==
    /\ PrevRun.counts.planned = ThisRun.counts.planned
    /\ PrevRun.counts.conflicts = ThisRun.counts.conflicts
    /\ PrevRun.counts.skips = ThisRun.counts.skips

====
